---- MODULE Spec2Model ----
(***************************************************************************)
(* Model of the Logseq publisher: the outline parser (parser.rs), the page *)
(* graph with its backlink index (graph.rs), the batch builders that fold  *)
(* parsed files into a graph (lib.rs of both crates), the directory reader *)
(* (converter.rs), the serialized form of a graph, the graph analytics and *)
(* a graph shared by threads under a lock.                                 *)
(*                                                                         *)
(* Strings of the program are sequences of one-character strings, so that  *)
(* splitting, trimming and matching are computed and not assumed.          *)
(* An Option is a sequence of length at most one: <<>> is None, <<x>> is   *)
(* Some(x).  A HashMap is a function whose DOMAIN is its key set.          *)
(***************************************************************************)
EXTENDS Integers, Sequences, FiniteSets, TLC

VARIABLES
    graph,      \* Graph { pages, backlinks }
    calls,      \* history: the pages handed to add_page so far, in order
    in_content, \* parser input: the file's content
    in_path,    \* parser input: the file's path
    parsed,     \* parser outputs so far: <<>> or <<result>>, per implementation
    files,      \* batch builder: HashMap path -> content being folded
    pending,    \* batch builder: paths the loop has not visited yet
    builder,    \* batch builder: which entry point runs the loop
    outcome,    \* batch builder: "running", "ok" or "error"
    listing,    \* directory reader: the input directory and what the host lists in it
    query,      \* graph analytics: the call in progress or its result
    conc        \* shared graph: the lock, the threads' positions and what readers saw

vars == <<graph, calls, in_content, in_path, parsed, files, pending, builder, outcome,
          listing, query, conc>>

\* ------------------------------------------------------------------ bounds

MaxCalls == 3

\* the number of lines of a content handed to the parser
MaxLines == 3

\* the number of files of a batch
MaxFiles == 3

\* the number of entries of a directory listing
MaxListing == 2

\* the largest hop count handed to a bounded traversal
MaxDepth == 3

\* the number of threads adding a page to a shared graph
MaxWriters == 2

\* the number of threads reading a shared graph
MaxReaders == 1
MaxNest == 4

\* ----------------------------------------------------------------- helpers

Range(s) == {s[i] : i \in DOMAIN s}

None == <<>>

Some(x) == <<x>>

EmptyMap == <<>>

\* HashMap::insert: a new key is added, an existing key's value is replaced
MapInsert(m, k, v) == [x \in DOMAIN m \cup {k} |-> IF x = k THEN v ELSE m[x]]

\* HashMap::get
MapGet(m, k) == IF k \in DOMAIN m THEN Some(m[k]) ELSE None

\* the number of indices of s holding x
Occurrences(s, x) == Cardinality({i \in DOMAIN s : s[i] = x})

IsPrefix(s, t) == Len(s) <= Len(t) /\ SubSeq(t, 1, Len(s)) = s

\* the sum of the values of a finite map of numbers
RECURSIVE SumValues(_)
SumValues(m) ==
    IF DOMAIN m = {} THEN 0
    ELSE LET x == CHOOSE y \in DOMAIN m : TRUE
         IN m[x] + SumValues([z \in DOMAIN m \ {x} |-> m[z]])

\* ------------------------------------------------------------- graph.rs

\* Graph::new
NewGraph == [pages |-> EmptyMap, backlinks |-> EmptyMap]

\* the loop of add_page: backlinks.entry(link).or_insert_with(Vec::new).push(path)
RECURSIVE push_backlinks(_, _, _)
push_backlinks(bl, links, p) ==
    IF links = <<>> THEN bl
    ELSE LET link == Head(links)
             cur  == IF link \in DOMAIN bl THEN bl[link] ELSE <<>>
         IN push_backlinks(MapInsert(bl, link, Append(cur, p)), Tail(links), p)

\* add_page keeping the stored page of a path that is already present
add_page_keep_first(g, page) ==
    [pages     |-> IF page.path \in DOMAIN g.pages THEN g.pages
                   ELSE MapInsert(g.pages, page.path, page),
     backlinks |-> push_backlinks(g.backlinks, page.links, page.path)]

\* add_page retracting the entries of the path before recording the new ones
add_page_retract(g, page) ==
    LET without(s) == SelectSeq(s, LAMBDA q : q # page.path)
        cleared    == [t \in DOMAIN g.backlinks |-> without(g.backlinks[t])]
    IN [pages     |-> MapInsert(g.pages, page.path, page),
        backlinks |-> push_backlinks(cleared, page.links, page.path)]

\* add_page rebuilding the index from the links of the page it is given
add_page_rebuild_index(g, page) ==
    [pages     |-> MapInsert(g.pages, page.path, page),
     backlinks |-> push_backlinks(EmptyMap, page.links, page.path)]

\* add_page recording the links of a path only when the path is new
add_page_index_new_only(g, page) ==
    [pages     |-> MapInsert(g.pages, page.path, page),
     backlinks |-> IF page.path \in DOMAIN g.pages THEN g.backlinks
                   ELSE push_backlinks(g.backlinks, page.links, page.path)]

\* Graph::add_page
add_page(g, page) ==
    [pages     |-> MapInsert(g.pages, page.path, page),
     backlinks |-> push_backlinks(g.backlinks, page.links, page.path)]

\* Graph::get_page
get_page(g, p) == MapGet(g.pages, p)

\* get_backlinks answering only for paths that have a page
get_backlinks_of_pages(g, p) ==
    IF p \in DOMAIN g.pages /\ p \in DOMAIN g.backlinks THEN g.backlinks[p] ELSE <<>>

\* Graph::get_backlinks: .get(path).cloned().unwrap_or_default()
get_backlinks(g, p) == IF p \in DOMAIN g.backlinks THEN g.backlinks[p] ELSE <<>>

\* Graph::page_count
page_count(g) == Cardinality(DOMAIN g.pages)

\* count_blocks: blocks.iter().map(|b| 1 + count_blocks(&b.children)).sum()
RECURSIVE count_blocks(_)
count_blocks(blocks) ==
    IF blocks = <<>> THEN 0
    ELSE 1 + count_blocks(Head(blocks).children) + count_blocks(Tail(blocks))

\* the orphan filter looking at outbound links only
is_orphan_outbound_only(g, p) == g.pages[p].links = <<>>

\* the filter of orphan_pages in Graph::stats
is_orphan(g, p) ==
    /\ g.pages[p].links = <<>>
    /\ (p \in DOMAIN g.backlinks => g.backlinks[p] = <<>>)

\* stats taking total_links from the backlink index and counting top-level blocks
stats_from_index(g) ==
    [page_count   |-> Cardinality(DOMAIN g.pages),
     total_blocks |-> SumValues([p \in DOMAIN g.pages |-> Len(g.pages[p].blocks)]),
     total_links  |-> SumValues([t \in DOMAIN g.backlinks |-> Len(g.backlinks[t])]),
     orphan_pages |-> Cardinality({p \in DOMAIN g.pages : is_orphan(g, p)})]

\* Graph::stats
stats(g) ==
    [page_count   |-> Cardinality(DOMAIN g.pages),
        total_blocks |-> SumValues([p \in DOMAIN g.pages |-> count_blocks(g.pages[p].blocks)]),
        total_links  |-> SumValues([p \in DOMAIN g.pages |-> Len(g.pages[p].links)]),
        orphan_pages |-> Cardinality({p \in DOMAIN g.pages : is_orphan(g, p)})]

\* ------------------------------------------------------- strings (std::str)

\* char::is_whitespace, over the characters the inputs are made of
Whitespace == {" ", "\t", "\r", "\n"}

\* the characters \w of the regex crate matches, over the characters the inputs are made of
WordChars ==
    {"a", "b", "c", "d", "e", "g", "k", "m", "o", "r", "s", "t", "u", "v", "x", "P", "T"}

\* the characters the inputs are made of
Alphabet == WordChars \cup Whitespace \cup {"-", "*", "+", ":", "[", "]", "#", ".", "/"}

\* str::starts_with
starts_with(s, prefix) == Len(prefix) <= Len(s) /\ SubSeq(s, 1, Len(prefix)) = prefix

\* str::ends_with
ends_with(s, suffix) ==
    Len(suffix) <= Len(s) /\ SubSeq(s, Len(s) - Len(suffix) + 1, Len(s)) = suffix

\* str::trim_start
RECURSIVE trim_start(_)
trim_start(s) ==
    IF s # <<>> /\ Head(s) \in Whitespace THEN trim_start(Tail(s)) ELSE s

\* str::trim_end
RECURSIVE trim_end(_)
trim_end(s) ==
    IF s # <<>> /\ s[Len(s)] \in Whitespace THEN trim_end(SubSeq(s, 1, Len(s) - 1)) ELSE s

\* str::trim
trim(s) == trim_end(trim_start(s))

\* str::trim_start_matches(char)
RECURSIVE trim_start_matches(_, _)
trim_start_matches(s, ch) ==
    IF s # <<>> /\ Head(s) = ch THEN trim_start_matches(Tail(s), ch) ELSE s

\* str::trim_end_matches(&str): the suffix is removed as often as it occurs
RECURSIVE trim_end_matches(_, _)
trim_end_matches(s, suffix) ==
    IF suffix # <<>> /\ ends_with(s, suffix)
    THEN trim_end_matches(SubSeq(s, 1, Len(s) - Len(suffix)), suffix)
    ELSE s

\* str::split_inclusive('\n'): the pieces of s, each with its terminating "\n"
RECURSIVE split_inclusive(_, _)
split_inclusive(s, cur) ==
    IF s = <<>> THEN (IF cur = <<>> THEN <<>> ELSE <<cur>>)
    ELSE IF Head(s) = "\n"
         THEN <<Append(cur, "\n")>> \o split_inclusive(Tail(s), <<>>)
         ELSE split_inclusive(Tail(s), Append(cur, Head(s)))

\* the map of str::lines: a piece loses its "\n" and then one "\r" before it
\* (a "\r" that no "\n" follows stays in the line)
lines_map(piece) ==
    IF piece = <<>> \/ piece[Len(piece)] # "\n" THEN piece
    ELSE LET l == SubSeq(piece, 1, Len(piece) - 1)
         IN IF l # <<>> /\ l[Len(l)] = "\r" THEN SubSeq(l, 1, Len(l) - 1) ELSE l

\* str::lines, collected
str_lines(s) ==
    LET pieces == split_inclusive(s, <<>>)
    IN [i \in 1..Len(pieces) |-> lines_map(pieces[i])]

\* the index of the first ch in s, 0 when there is none
RECURSIVE find_char(_, _, _)
find_char(s, ch, i) ==
    IF i > Len(s) THEN 0 ELSE IF s[i] = ch THEN i ELSE find_char(s, ch, i + 1)

\* the segment after the last ch of s: split(ch).last()
RECURSIVE last_segment(_, _)
last_segment(s, ch) ==
    LET i == find_char(s, ch, 1)
    IN IF i = 0 THEN s ELSE last_segment(SubSeq(s, i + 1, Len(s)), ch)

\* Result::Ok and Result::Err
Ok(v) == [ok |-> TRUE, value |-> v]

Err(e) == [ok |-> FALSE, error |-> e]

\* ------------------------------------------------ parser.rs (publish-spa)

Delimiter == <<"-", "-", "-">>

UnclosedFrontmatter == "Unclosed frontmatter"

\* PublishError::parse(file, message)
PublishError_parse(file, message) == [type |-> "Parse", file |-> file, message |-> message]

\* extract_title
extract_title(p) ==
    trim_end_matches(trim_end_matches(last_segment(p, "/"), <<".", "m", "d">>),
                     <<".", "m", "a", "r", "k", "d", "o", "w", "n">>)

\* parse_properties failing on a line that is no key: value pair
RECURSIVE parse_properties_strict(_, _, _)
parse_properties_strict(lines, properties, i) ==
    IF i > Len(lines) THEN Err(UnclosedFrontmatter)
    ELSE IF lines[i] = Delimiter THEN Ok([index |-> i - 1, properties |-> properties])
    ELSE LET colon == find_char(lines[i], ":", 1)
         IN IF colon = 0 THEN Err("Invalid property")
            ELSE parse_properties_strict(
                     lines,
                     MapInsert(properties,
                               trim(SubSeq(lines[i], 1, colon - 1)),
                               trim(SubSeq(lines[i], colon + 1, Len(lines[i])))),
                     i + 1)

\* parse_properties: Ok(index of the closing delimiter, 0-based) with the
\* properties read up to it, or Err("Unclosed frontmatter")
RECURSIVE parse_properties(_, _, _)
parse_properties(lines, properties, i) ==
    IF i > Len(lines) THEN Err(UnclosedFrontmatter)
    ELSE IF lines[i] = Delimiter THEN Ok([index |-> i - 1, properties |-> properties])
    ELSE LET colon == find_char(lines[i], ":", 1)
         IN parse_properties(
                lines,
                IF colon = 0 THEN properties
                ELSE MapInsert(properties,
                               trim(SubSeq(lines[i], 1, colon - 1)),
                               trim(SubSeq(lines[i], colon + 1, Len(lines[i])))),
                i + 1)

\* count_indent: a tab is one level, two spaces are one level, a single space none
RECURSIVE count_indent_from(_, _, _)
count_indent_from(chars, i, indent) ==
    IF i > Len(chars) THEN indent
    ELSE IF chars[i] = "\t" THEN count_indent_from(chars, i + 1, indent + 1)
    ELSE IF chars[i] = " "
         THEN IF i + 1 <= Len(chars) /\ chars[i + 1] = " "
              THEN count_indent_from(chars, i + 2, indent + 1)
              ELSE count_indent_from(chars, i + 1, indent)
    ELSE indent

count_indent(line) == count_indent_from(line, 1, 0)

\* extract_block_content
extract_block_content(line) ==
    LET trimmed == trim(line)
    IN IF \/ starts_with(trimmed, <<"-", " ">>)
          \/ starts_with(trimmed, <<"*", " ">>)
          \/ starts_with(trimmed, <<"+", " ">>)
       THEN SubSeq(trimmed, 3, Len(trimmed))
       ELSE trimmed

\* format!("block-{}-{}", base_level, blocks.len())
block_id(base_level, n) == <<"block", base_level, n>>

\* a look-ahead that steps over the line that ends the run
RECURSIVE child_scan_past_end(_, _, _, _)
child_scan_past_end(lines, indent, j, child_lines) ==
    IF j > Len(lines) THEN [child_lines |-> child_lines, j |-> j]
    ELSE IF trim(lines[j]) = <<>> THEN child_scan_past_end(lines, indent, j + 1, child_lines)
    ELSE IF count_indent(lines[j]) > indent
         THEN child_scan_past_end(lines, indent, j + 1, Append(child_lines, lines[j]))
         ELSE [child_lines |-> child_lines, j |-> j + 1]

\* a look-ahead that a blank line ends
RECURSIVE child_scan_stop_at_blank(_, _, _, _)
child_scan_stop_at_blank(lines, indent, j, child_lines) ==
    IF j > Len(lines) \/ trim(lines[j]) = <<>> THEN [child_lines |-> child_lines, j |-> j]
    ELSE IF count_indent(lines[j]) > indent
         THEN child_scan_stop_at_blank(lines, indent, j + 1, Append(child_lines, lines[j]))
         ELSE [child_lines |-> child_lines, j |-> j]

\* the look-ahead loop of parse_blocks: the lines from j on that are deeper than
\* indent, blank lines skipped, and the index of the line that ends the run
RECURSIVE child_scan(_, _, _, _)
child_scan(lines, indent, j, child_lines) ==
    IF j > Len(lines) THEN [child_lines |-> child_lines, j |-> j]
    ELSE IF trim(lines[j]) = <<>> THEN child_scan(lines, indent, j + 1, child_lines)
    ELSE IF count_indent(lines[j]) > indent
         THEN child_scan(lines, indent, j + 1, Append(child_lines, lines[j]))
         ELSE [child_lines |-> child_lines, j |-> j]

\* parse_blocks: the while loop from line i (1-based) with the blocks built so far
RECURSIVE parse_blocks_from(_, _, _, _)
parse_blocks_from(lines, base_level, i, blocks) ==
    IF i > Len(lines) THEN Ok(blocks)
    ELSE IF trim(lines[i]) = <<>> THEN parse_blocks_from(lines, base_level, i + 1, blocks)
    ELSE LET indent == count_indent(lines[i])
             level  == indent
             block  == [id         |-> block_id(base_level, Len(blocks)),
                        content    |-> extract_block_content(lines[i]),
                        children   |-> <<>>,
                        properties |-> EmptyMap,
                        level      |-> level]
             scan   == child_scan(lines, indent, i + 1, <<>>)
         IN IF scan.child_lines # <<>>
            THEN LET sub == parse_blocks_from(scan.child_lines, level + 1, 1, <<>>)
                 IN IF ~sub.ok THEN sub
                    ELSE parse_blocks_from(lines, base_level, scan.j,
                             Append(blocks, [block EXCEPT !.children = sub.value]))
            ELSE parse_blocks_from(lines, base_level, i + 1, Append(blocks, block))

\* parse_blocks
parse_blocks(lines, base_level) == parse_blocks_from(lines, base_level, 1, <<>>)

\* the length of the run of characters of set from index i of s
RECURSIVE run_length(_, _, _)
run_length(s, i, set) ==
    IF i <= Len(s) /\ s[i] \in set THEN 1 + run_length(s, i + 1, set) ELSE 0

\* captures_iter of #(\w+): the capture of every match, from left to right
RECURSIVE tag_captures(_, _)
tag_captures(s, i) ==
    IF i > Len(s) THEN <<>>
    ELSE LET n == run_length(s, i + 1, WordChars)
         IN IF s[i] = "#" /\ n >= 1
            THEN <<SubSeq(s, i + 1, i + n)>> \o tag_captures(s, i + n + 1)
            ELSE tag_captures(s, i + 1)

\* the characters [^\]] matches
NotCloseBracket == Alphabet \ {"]"}

\* captures_iter of \[\[([^\]]+)\]\]: the capture of every match, from left to right
RECURSIVE link_captures(_, _)
link_captures(s, i) ==
    IF i > Len(s) THEN <<>>
    ELSE LET n == run_length(s, i + 2, NotCloseBracket)
         IN IF /\ starts_with(SubSeq(s, i, Len(s)), <<"[", "[">>)
               /\ n >= 1
               /\ starts_with(SubSeq(s, i + 2 + n, Len(s)), <<"]", "]">>)
            THEN <<SubSeq(s, i + 2, i + 1 + n)>> \o link_captures(s, i + n + 4)
            ELSE link_captures(s, i + 1)

\* every x of xs pushed, contained or not
push_unchecked(v, xs) == v \o xs

\* if !v.contains(&x) { v.push(x) } for every x of xs
RECURSIVE push_new(_, _)
push_new(v, xs) ==
    IF xs = <<>> THEN v
    ELSE push_new(IF Head(xs) \in Range(v) THEN v ELSE Append(v, Head(xs)), Tail(xs))

\* extract_tags_and_links: tl is [tags, links] as collected so far
RECURSIVE extract_tags_and_links(_, _)
extract_tags_and_links(blocks, tl) ==
    IF blocks = <<>> THEN tl
    ELSE LET block == Head(blocks)
             own   == [tags  |-> push_new(tl.tags, tag_captures(block.content, 1)),
                       links |-> push_new(tl.links, link_captures(block.content, 1))]
         IN extract_tags_and_links(Tail(blocks),
                                   extract_tags_and_links(block.children, own))

\* the activations of parse_blocks on the call stack while the forest is built:
\* the call itself and, under it, the calls that parse the child lines of a block
RECURSIVE parse_blocks_frames(_)
parse_blocks_frames(blocks) ==
    LET below == {0} \cup {parse_blocks_frames(blocks[i].children) :
                              i \in {n \in DOMAIN blocks : blocks[n].children # <<>>}}
    IN 1 + (CHOOSE m \in below : \A n \in below : n <= m)

\* the activations of extract_tags_and_links on the call stack: the call itself
\* and, under it, the calls on the children of each block
RECURSIVE extract_frames(_)
extract_frames(blocks) ==
    LET below == {0} \cup {extract_frames(blocks[i].children) : i \in DOMAIN blocks}
    IN 1 + (CHOOSE m \in below : \A n \in below : n <= m)

\* parse_logseq_page of publish-spa: Ok(Page) or Err(PublishError::Parse)
parse_logseq_page(content, p) ==
    LET lines  == str_lines(content)
        front  == lines # <<>> /\ lines[1] = Delimiter
        props  == IF front THEN parse_properties(Tail(lines), EmptyMap, 1)
                  ELSE Ok([index |-> 0, properties |-> EmptyMap])
    IN IF ~props.ok THEN Err(PublishError_parse(p, props.error))
       ELSE LET i      == IF front THEN props.value.index + 2 ELSE 0
                parsed_blocks == IF i < Len(lines)
                          THEN parse_blocks(SubSeq(lines, i + 1, Len(lines)), 0)
                          ELSE Ok(<<>>)
            IN IF ~parsed_blocks.ok THEN Err(PublishError_parse(p, parsed_blocks.error))
               ELSE LET tl == extract_tags_and_links(parsed_blocks.value,
                                                     [tags |-> <<>>, links |-> <<>>])
                    IN Ok([path       |-> p,
                           title      |-> extract_title(p),
                           properties |-> props.value.properties,
                           blocks     |-> parsed_blocks.value,
                           tags       |-> tl.tags,
                           links      |-> tl.links])

\* ---------------------------------------- parser.rs (logseq-publisher-rust)

\* extract_title of logseq-publisher-rust
lpr_extract_title(p) == trim_end_matches(last_segment(p, "/"), <<".", "m", "d">>)

\* line.chars().take_while(|c| c.is_whitespace()).count()
lpr_indent(line) == run_length(line, 1, Whitespace)

\* the bullet content of parse_blocks of logseq-publisher-rust
lpr_block_content(line) ==
    LET trimmed == trim(line)
    IN IF starts_with(trimmed, <<"-">>) \/ starts_with(trimmed, <<"*">>)
       THEN trim(trim_start_matches(trim_start_matches(trimmed, "-"), "*"))
       ELSE trimmed

\* the look-ahead loop of parse_blocks of logseq-publisher-rust
RECURSIVE lpr_child_scan(_, _, _, _)
lpr_child_scan(lines, indent, j, child_lines) ==
    IF j > Len(lines) THEN [child_lines |-> child_lines, j |-> j]
    ELSE IF trim(lines[j]) = <<>> THEN lpr_child_scan(lines, indent, j + 1, child_lines)
    ELSE IF lpr_indent(lines[j]) > indent
         THEN lpr_child_scan(lines, indent, j + 1, Append(child_lines, lines[j]))
         ELSE [child_lines |-> child_lines, j |-> j]

\* parse_blocks of logseq-publisher-rust: the while loop from line i (1-based)
RECURSIVE lpr_parse_blocks_from(_, _, _, _)
lpr_parse_blocks_from(lines, base_level, i, blocks) ==
    IF i > Len(lines) THEN Ok(blocks)
    ELSE IF trim(lines[i]) = <<>>
         THEN lpr_parse_blocks_from(lines, base_level, i + 1, blocks)
    ELSE LET indent == lpr_indent(lines[i])
             level  == indent \div 2
             block  == [id         |-> block_id(base_level, Len(blocks)),
                        content    |-> lpr_block_content(lines[i]),
                        children   |-> <<>>,
                        properties |-> EmptyMap,
                        level      |-> level]
             scan   == lpr_child_scan(lines, indent, i + 1, <<>>)
         IN IF scan.child_lines # <<>>
            THEN LET sub == lpr_parse_blocks_from(scan.child_lines, level + 1, 1, <<>>)
                 IN IF ~sub.ok THEN sub
                    ELSE lpr_parse_blocks_from(lines, base_level, scan.j,
                             Append(blocks, [block EXCEPT !.children = sub.value]))
            ELSE lpr_parse_blocks_from(lines, base_level, i + 1, Append(blocks, block))

\* parse_blocks of logseq-publisher-rust
lpr_parse_blocks(lines, base_level) == lpr_parse_blocks_from(lines, base_level, 1, <<>>)

\* the panic of &lines[i..] when i exceeds lines.len()
SliceOutOfRange == "range start index out of range for slice"

\* parse_logseq_page of logseq-publisher-rust: Ok(Page) or Err(String); the
\* slice &lines[i..] is taken without the i < lines.len() test of publish-spa
lpr_parse_logseq_page(content, p) ==
    LET lines  == str_lines(content)
        front  == lines # <<>> /\ lines[1] = Delimiter
        props  == IF front THEN parse_properties(Tail(lines), EmptyMap, 1)
                  ELSE Ok([index |-> 0, properties |-> EmptyMap])
    IN IF ~props.ok THEN Err([message |-> props.error])
       ELSE LET i      == IF front THEN props.value.index + 2 ELSE 0
                parsed_blocks == IF i > Len(lines) THEN Err(SliceOutOfRange)
                                 ELSE lpr_parse_blocks(SubSeq(lines, i + 1, Len(lines)), 0)
            IN IF ~parsed_blocks.ok THEN Err([message |-> parsed_blocks.error])
               ELSE LET tl == extract_tags_and_links(parsed_blocks.value,
                                                     [tags |-> <<>>, links |-> <<>>])
                    IN Ok([path       |-> p,
                           title      |-> lpr_extract_title(p),
                           properties |-> props.value.properties,
                           blocks     |-> parsed_blocks.value,
                           tags       |-> tl.tags,
                           links      |-> tl.links])

\* ------------------------------------------ serialization (serde derive)

\* A JSON document is a tree of objects, arrays, strings and numbers.

\* Serialize for String
ser_string(x) == [json |-> "string", text |-> x]

\* Serialize for usize
ser_usize(n) == [json |-> "number", number |-> n]

\* Serialize for Vec<String>
ser_vec_string(v) == [json |-> "array", items |-> [i \in DOMAIN v |-> ser_string(v[i])]]

\* Serialize for HashMap<String, String>
ser_map_string(m) == [json |-> "object", members |-> [k \in DOMAIN m |-> ser_string(m[k])]]

\* derive(Serialize) for Block
RECURSIVE ser_block(_)
ser_block(bk) ==
    [json    |-> "object",
     members |-> [id         |-> ser_string(bk.id),
                  content    |-> ser_string(bk.content),
                  children   |-> [json  |-> "array",
                                  items |-> [i \in DOMAIN bk.children |->
                                                ser_block(bk.children[i])]],
                  properties |-> ser_map_string(bk.properties),
                  level      |-> ser_usize(bk.level)]]

\* derive(Serialize) for Page
ser_page(page) ==
    [json    |-> "object",
     members |-> [path       |-> ser_string(page.path),
                  title      |-> ser_string(page.title),
                  properties |-> ser_map_string(page.properties),
                  blocks     |-> [json  |-> "array",
                                  items |-> [i \in DOMAIN page.blocks |->
                                                ser_block(page.blocks[i])]],
                  tags       |-> ser_vec_string(page.tags),
                  links      |-> ser_vec_string(page.links)]]

\* a serializer that leaves the derived backlink index out of the document
ser_graph_skip_backlinks(g) ==
    [json    |-> "object",
     members |-> [pages |-> [json    |-> "object",
                             members |-> [p \in DOMAIN g.pages |-> ser_page(g.pages[p])]]]]

\* derive(Serialize) for Graph
ser_graph(g) ==
    [json    |-> "object",
     members |-> [pages     |-> [json    |-> "object",
                                 members |-> [p \in DOMAIN g.pages |->
                                                 ser_page(g.pages[p])]],
                  backlinks |-> [json    |-> "object",
                                 members |-> [t \in DOMAIN g.backlinks |->
                                                 ser_vec_string(g.backlinks[t])]]]]

\* the errors of serde's Deserialize
InvalidType == "invalid type"

MissingField == "missing field"

\* Ok of the values when every result is Ok, the first kind of error otherwise
collect(rs) ==
    IF \A i \in DOMAIN rs : rs[i].ok THEN Ok([i \in DOMAIN rs |-> rs[i].value])
    ELSE Err(IF \E i \in DOMAIN rs : ~rs[i].ok /\ rs[i].error = MissingField
             THEN MissingField ELSE InvalidType)

\* Deserialize for String
de_string(j) == IF j.json = "string" THEN Ok(j.text) ELSE Err(InvalidType)

\* Deserialize for usize
de_usize(j) ==
    IF j.json = "number" /\ j.number \in Nat THEN Ok(j.number) ELSE Err(InvalidType)

\* Deserialize for Vec<String>
de_vec_string(j) ==
    IF j.json # "array" THEN Err(InvalidType)
    ELSE collect([i \in DOMAIN j.items |-> de_string(j.items[i])])

\* Deserialize for HashMap<String, String>
de_map_string(j) ==
    IF j.json # "object" THEN Err(InvalidType)
    ELSE collect([k \in DOMAIN j.members |-> de_string(j.members[k])])

\* derive(Deserialize) for Block: every field is required
RECURSIVE de_block(_)
de_block(j) ==
    IF j.json # "object" THEN Err(InvalidType)
    ELSE IF ~({"id", "content", "children", "properties", "level"} \subseteq DOMAIN j.members)
    THEN Err(MissingField)
    ELSE LET m == j.members
             children == IF m.children.json # "array" THEN Err(InvalidType)
                         ELSE collect([i \in DOMAIN m.children.items |->
                                          de_block(m.children.items[i])])
             fields == [id         |-> de_string(m.id),
                        content    |-> de_string(m.content),
                        children   |-> children,
                        properties |-> de_map_string(m.properties),
                        level      |-> de_usize(m.level)]
         IN collect(fields)

\* derive(Deserialize) for Page: every field is required
de_page(j) ==
    IF j.json # "object" THEN Err(InvalidType)
    ELSE IF ~({"path", "title", "properties", "blocks", "tags", "links"}
                  \subseteq DOMAIN j.members)
    THEN Err(MissingField)
    ELSE LET m == j.members
             blocks == IF m.blocks.json # "array" THEN Err(InvalidType)
                       ELSE collect([i \in DOMAIN m.blocks.items |->
                                        de_block(m.blocks.items[i])])
             fields == [path       |-> de_string(m.path),
                        title      |-> de_string(m.title),
                        properties |-> de_map_string(m.properties),
                        blocks     |-> blocks,
                        tags       |-> de_vec_string(m.tags),
                        links      |-> de_vec_string(m.links)]
         IN collect(fields)

\* derive(Deserialize) for Graph: every field is required
de_graph(j) ==
    IF j.json # "object" THEN Err(InvalidType)
    ELSE IF ~({"pages", "backlinks"} \subseteq DOMAIN j.members) THEN Err(MissingField)
    ELSE LET m == j.members
             pages == IF m.pages.json # "object" THEN Err(InvalidType)
                      ELSE collect([p \in DOMAIN m.pages.members |->
                                       de_page(m.pages.members[p])])
             backlinks == IF m.backlinks.json # "object" THEN Err(InvalidType)
                          ELSE collect([t \in DOMAIN m.backlinks.members |->
                                           de_vec_string(m.backlinks.members[t])])
         IN collect([pages |-> pages, backlinks |-> backlinks])

\* ------------------------------------------------- pages handed to add_page

a == <<"a">>
b == <<"b">>
c == <<"c">>

Paths == {a, b, c}

\* link lists of the pages added directly (a caller may repeat a target)
LinkLists == {<<>>, <<a>>, <<b, c>>, <<c, c>>}

Leaf(id, text, lvl) ==
    [id |-> id, content |-> text, children |-> <<>>, properties |-> EmptyMap, level |-> lvl]

\* title, properties, blocks and tags of the two versions a page comes in
PlainBody == [title |-> <<"v", "1">>, properties |-> EmptyMap, blocks |-> <<>>, tags |-> <<>>]

RichBody ==
    [title      |-> <<"v", "2">>,
     properties |-> [k \in {<<"k">>} |-> <<"v">>],
     blocks     |-> << [id |-> <<"block", 0, 0>>, content |-> <<"x">>,
                        children |-> << Leaf(<<"block", 1, 0>>, <<"y">>, 1) >>,
                        properties |-> EmptyMap, level |-> 0],
                       Leaf(<<"block", 0, 1>>, <<"z">>, 0) >>,
     tags       |-> << <<"t">> >>]

Bodies == {PlainBody, RichBody}

MkPage(p, body, links) ==
    [path |-> p, title |-> body.title, properties |-> body.properties,
     blocks |-> body.blocks, tags |-> body.tags, links |-> links]

PageInputs == {MkPage(p, body, links) : p \in Paths, body \in Bodies, links \in LinkLists}

\* ------------------------------------------------------------ graph actions

InitGraph ==
    /\ graph = NewGraph
    /\ calls = <<>>

IdleParser ==
    /\ in_content = <<>>
    /\ in_path = <<>>
    /\ parsed = <<>>

IdleBuilder ==
    /\ files = EmptyMap
    /\ pending = {}
    /\ builder = "none"
    /\ outcome = "ok"

\* no directory has been listed
IdleReader == listing = [input_dir |-> <<>>, readable |-> TRUE, entries |-> <<>>]

\* no analytics call has been made
NoQuery ==
    [op |-> "none", status |-> "idle", start |-> <<>>, target |-> <<>>, max_depth |-> 0,
     frontier |-> <<>>, visited |-> <<>>, parent |-> EmptyMap, result |-> <<>>]

IdleAnalytics == query = NoQuery

\* no thread shares the graph
IdleThreads ==
    conc = [writer |-> None, readers |-> {}, page |-> <<>>, wpc |-> <<>>, rpc |-> <<>>,
            seen |-> <<>>]

IdleRest == IdleReader /\ IdleAnalytics /\ IdleThreads

Init == InitGraph /\ IdleParser /\ IdleBuilder /\ IdleRest

\* a caller hands a page to Graph::add_page
AddPage(page) ==
    /\ Len(calls) < MaxCalls
    /\ graph' = add_page(graph, page)
    /\ calls' = Append(calls, page)
    /\ UNCHANGED <<in_content, in_path, parsed, files, pending, builder, outcome, listing,
                   query, conc>>

Next == \E page \in PageInputs : AddPage(page)

Spec == Init /\ [][Next]_vars

\* ------------------------------------------------------ parser specification

\* the lines the contents are made of: a frontmatter delimiter, a key: value
\* line, a bullet with a wiki-link, an indented bullet, a blank line, a
\* tab-indented star bullet with a tag, a line indented by a single space
LineVocab ==
    {Delimiter,
     <<"k", ":", " ", "v">>,
     <<"-", " ", "[", "[", "b", "]", "]">>,
     <<" ", " ", "-", " ", "c">>,
     <<>>,
     <<"\t", "*", " ", "#", "t">>,
     <<" ", "x">>}

Terminators == {<<"\n">>, <<"\r", "\n">>}

LineSeqs == UNION {[1..k -> LineVocab] : k \in 0..MaxLines}

\* the lines of ls joined by term, with or without a terminator after the last
RECURSIVE JoinLines(_, _, _)
JoinLines(ls, term, trailing) ==
    IF ls = <<>> THEN <<>>
    ELSE IF Len(ls) = 1 THEN Head(ls) \o (IF trailing THEN term ELSE <<>>)
    ELSE Head(ls) \o term \o JoinLines(Tail(ls), term, trailing)

\* str::repeat
RECURSIVE repeat(_, _)
repeat(s, n) == IF n = 0 THEN <<>> ELSE s \o repeat(s, n - 1)

\* the content of the nesting tests: line i of n is indented by i two-space groups
RECURSIVE deeply_nested(_, _)
deeply_nested(i, n) ==
    IF i >= n THEN <<>>
    ELSE repeat(<<" ", " ">>, i) \o <<"-", " ", "x", "\n">> \o deeply_nested(i + 1, n)

\* the input of test_mixed_line_endings: bullets ended by \n, \r\n and a lone \r
mixed_line_endings ==
    <<"-", " ", "a", "\n", "-", " ", "b", "\r", "\n", "-", " ", "c", "\r", "-", " ", "d">>

\* two parents of one level, each with one child, a blank line before the first child
two_parents ==
    <<"-", " ", "a", "\n", "\n", " ", " ", "-", " ", "b", "\n",
      "-", " ", "c", "\n", " ", " ", "-", " ", "d">>

\* an indented first line, a deeper line, a blank line and a line of level 0
\* that repeats the tags and the link of the first two in another order
indented_first ==
    <<" ", " ", "-", " ", "#", "t", "\n",
      " ", " ", " ", " ", "-", " ", "[", "[", "b", "]", "]", " ", "#", "a", "\n",
      "\n",
      "-", " ", "#", "a", " ", "#", "t", " ", "[", "[", "c", "]", "]", " ",
      "[", "[", "b", "]", "]">>

FixedContents ==
    {mixed_line_endings, two_parents, indented_first}
        \cup {deeply_nested(0, n) : n \in 1..MaxNest}

Contents ==
    {JoinLines(ls, term, trailing) : ls \in LineSeqs, term \in Terminators, trailing \in BOOLEAN}
        \cup FixedContents

ParsePaths == {<<"a", ".", "m", "d">>, <<"p", "/", "b", ".", "m", "d">>}

InitParse ==
    /\ InitGraph
    /\ IdleBuilder
    /\ IdleRest
    /\ in_content \in Contents
    /\ in_path \in ParsePaths
    /\ parsed = <<>>

\* a caller of publish-spa parses the file
ParsePage ==
    /\ parsed = <<>>
    /\ parsed' = <<[crate |-> "publish-spa", result |-> parse_logseq_page(in_content, in_path)]>>
    /\ UNCHANGED <<graph, calls, in_content, in_path, files, pending, builder, outcome,
                   listing, query, conc>>

\* a caller of logseq-publisher-rust parses the file
LprParsePage ==
    /\ parsed = <<>>
    /\ parsed' = <<[crate  |-> "logseq-publisher-rust",
                    result |-> lpr_parse_logseq_page(in_content, in_path)]>>
    /\ UNCHANGED <<graph, calls, in_content, in_path, files, pending, builder, outcome,
                   listing, query, conc>>

NextParse == ParsePage \/ LprParsePage

SpecParse == InitParse /\ [][NextParse]_vars

\* ----------------------------------------------- batch builder specification

FileNames ==
    << <<"a", ".", "m", "d">>, <<"b", ".", "m", "d">>, <<"c", ".", "m", "d">>,
       <<"d", ".", "m", "d">>, <<"k", ".", "m", "d">> >>

BatchPaths == {FileNames[i] : i \in 1..MaxFiles}

\* file contents of a batch: unclosed frontmatter, a bullet linking to b.md by
\* its path, closed frontmatter followed by a bullet, a bullet linking to the
\* page b by its name
BatchContents ==
    {<<"-", "-", "-", "\n", "k", ":", " ", "v", "\n">>,
     <<"-", " ", "[", "[", "b", ".", "m", "d", "]", "]">>,
     <<"-", "-", "-", "\n", "-", "-", "-", "\n", "-", " ", "x">>,
     <<"-", " ", "[", "[", "b", "]", "]">>}

\* "Target Page", the link text and heading of the backlink fixtures
TargetPage == <<"T", "a", "r", "g", "e", "t", " ", "P", "a", "g", "e">>

source_md == <<"s", "o", "u", "r", "c", "e", ".", "m", "d">>

target_md == <<"t", "a", "r", "g", "e", "t", ".", "m", "d">>

\* the directory of test_backlink_generation: source.md references
\* [[Target Page]] twice, target.md is headed "# Target Page"
BacklinkFixture ==
    [p \in {source_md, target_md} |->
        IF p = source_md
        THEN <<"-", " ", "[", "[">> \o TargetPage \o <<"]", "]", "\n",
               "-", " ", "[", "[">> \o TargetPage \o <<"]", "]", " ", "x", "\n">>
        ELSE <<"#", " ">> \o TargetPage \o <<"\n", "\n", "-", " ", "x", "\n">>]

InitBuild ==
    /\ InitGraph
    /\ IdleParser
    /\ IdleRest
    /\ files \in [BatchPaths -> BatchContents] \cup {BacklinkFixture}
    /\ pending = DOMAIN files
    /\ builder \in {"publish", "parse_files"}
    /\ outcome = "running"

\* one iteration of the loop of publish, parse_graph and get_backlinks of
\* publish-spa over the HashMap of files: a file that fails to parse is logged
\* and skipped
BuildStep(p) ==
    /\ builder = "publish" /\ outcome = "running"
    /\ p \in pending
    /\ LET r == parse_logseq_page(files[p], p)
       IN /\ graph' = IF r.ok THEN add_page(graph, r.value) ELSE graph
          /\ calls' = IF r.ok THEN Append(calls, r.value) ELSE calls
    /\ pending' = pending \ {p}
    /\ UNCHANGED <<in_content, in_path, parsed, files, builder, outcome, listing, query, conc>>

\* the loop of publish-spa has visited every file
BuildDone ==
    /\ builder = "publish" /\ outcome = "running"
    /\ pending = {}
    /\ outcome' = "ok"
    /\ UNCHANGED <<graph, calls, in_content, in_path, parsed, files, pending, builder, listing,
                   query, conc>>

\* one iteration of the loop of LogseqPublisher::parse_files: the ? operator
\* returns the error of a file that fails to parse.  The graph module of
\* logseq-publisher-rust is not among the sources; its Graph::add_page is taken
\* to be the one of publish-spa, whose interface its tests use.
ParseFilesStep(p) ==
    /\ builder \in {"parse_files", "parse_files again"} /\ outcome = "running"
    /\ p \in pending
    /\ LET r == lpr_parse_logseq_page(files[p], p)
       IN /\ graph' = IF r.ok THEN add_page(graph, r.value) ELSE graph
          /\ calls' = IF r.ok THEN Append(calls, r.value) ELSE calls
          /\ outcome' = IF r.ok THEN outcome ELSE "error"
    /\ pending' = pending \ {p}
    /\ UNCHANGED <<in_content, in_path, parsed, files, builder, listing, query, conc>>

\* the loop of parse_files has visited every file: Ok(stats)
ParseFilesDone ==
    /\ builder \in {"parse_files", "parse_files again"} /\ outcome = "running"
    /\ pending = {}
    /\ outcome' = "ok"
    /\ UNCHANGED <<graph, calls, in_content, in_path, parsed, files, pending, builder, listing,
                   query, conc>>

\* the orders in which the iterator of a HashMap may yield the keys S
VisitOrders(S) ==
    {o \in [1..Cardinality(S) -> S] : \A i, j \in DOMAIN o : o[i] = o[j] => i = j}

\* the whole loop of publish, parse_graph and get_backlinks of publish-spa,
\* started on graph g, when the HashMap yields the files in the given order
RECURSIVE build_graph(_, _, _)
build_graph(fs, order, g) ==
    IF order = <<>> THEN g
    ELSE LET r == parse_logseq_page(fs[Head(order)], Head(order))
         IN build_graph(fs, Tail(order), IF r.ok THEN add_page(g, r.value) ELSE g)

NextBuild ==
    \/ \E p \in pending : BuildStep(p)
    \/ BuildDone
    \/ \E p \in pending : ParseFilesStep(p)
    \/ ParseFilesDone

SpecBuild == InitBuild /\ [][NextBuild]_vars

\* ------------------------------------------------------ incremental update
\* A LogseqPublisher keeps its graph between calls: a second parse_files call
\* with the changed files alone folds them into the graph of the first.

\* the files of the first call and the paths a later call may bring
FirstPaths == {FileNames[1], FileNames[2]}

ChangedPaths == {FileNames[1], FileNames[2], FileNames[3]}

InitUpdate ==
    /\ InitGraph
    /\ IdleParser
    /\ IdleRest
    /\ files \in [FirstPaths -> BatchContents]
    /\ pending = DOMAIN files
    /\ builder = "parse_files"
    /\ outcome = "running"

\* parse_files is called again on the same LogseqPublisher with the changed files
IncrementalUpdate(changed) ==
    /\ builder = "parse_files" /\ outcome = "ok"
    /\ files' = changed
    /\ pending' = DOMAIN changed
    /\ builder' = "parse_files again"
    /\ outcome' = "running"
    /\ UNCHANGED <<graph, calls, in_content, in_path, parsed, listing, query, conc>>

NextUpdate ==
    \/ \E p \in pending : ParseFilesStep(p)
    \/ ParseFilesDone
    \/ \E paths \in SUBSET ChangedPaths \ {{}} :
           \E changed \in [paths -> BatchContents] : IncrementalUpdate(changed)

SpecUpdate == InitUpdate /\ [][NextUpdate]_vars

\* ------------------------------------------- converter.rs (directory reader)

\* the character '\0', written as one symbol
Nul == "NUL"

\* str::contains
contains(s, sub) == \E i \in 1..(Len(s) - Len(sub) + 1) : SubSeq(s, i, i + Len(sub) - 1) = sub

\* PublishError::invalid_input, ::io and ::js_interop
PublishError_invalid_input(message) == [type |-> "InvalidInput", message |-> message]

PublishError_io(message) == [type |-> "Io", message |-> message]

PublishError_js_interop(message) == [type |-> "JsInterop", message |-> message]

\* validate_input_path
validate_input_path(path) ==
    IF path = <<>>
    THEN Err(PublishError_invalid_input("Input directory path cannot be empty"))
    ELSE IF contains(path, <<".", ".">>)
    THEN Err(PublishError_invalid_input("Path traversal not allowed"))
    ELSE IF /\ starts_with(path, <<"/">>)
            /\ ~starts_with(path, <<"/", "h", "o", "m", "e", "/">>)
            /\ ~starts_with(path, <<"/", "t", "m", "p", "/">>)
    THEN Err(PublishError_invalid_input("Absolute paths outside allowed directories"))
    ELSE Ok(<<>>)

\* validate_file_path accepting a path that starts with a backslash
validate_file_path_unix_only(path) ==
    IF path = <<>> THEN Err(PublishError_invalid_input("File path cannot be empty"))
    ELSE IF contains(path, <<".", ".">>)
    THEN Err(PublishError_invalid_input("Path traversal not allowed in file path"))
    ELSE IF contains(path, <<Nul>>)
    THEN Err(PublishError_invalid_input("Null bytes not allowed in file path"))
    ELSE IF starts_with(path, <<"/">>)
    THEN Err(PublishError_invalid_input("Absolute file paths not allowed"))
    ELSE Ok(<<>>)

\* validate_file_path
validate_file_path(path) ==
    IF path = <<>> THEN Err(PublishError_invalid_input("File path cannot be empty"))
    ELSE IF contains(path, <<".", ".">>)
    THEN Err(PublishError_invalid_input("Path traversal not allowed in file path"))
    ELSE IF contains(path, <<Nul>>)
    THEN Err(PublishError_invalid_input("Null bytes not allowed in file path"))
    ELSE IF starts_with(path, <<"/">>) \/ starts_with(path, <<"\\">>)
    THEN Err(PublishError_invalid_input("Absolute file paths not allowed"))
    ELSE Ok(<<>>)

\* the loop of read_graph_files from entry i with the files kept so far; an
\* entry is [path, content], each None when the property is not a string
RECURSIVE read_entries(_, _, _)
read_entries(entries, i, kept) ==
    IF i > Len(entries) THEN Ok(kept)
    ELSE LET file_obj == entries[i]
         IN IF file_obj.path = None
            THEN Err(PublishError_js_interop("Path property is not a string"))
            ELSE LET path  == file_obj.path[1]
                     valid == validate_file_path(path)
                 IN IF ~valid.ok THEN valid
                    ELSE IF file_obj.content = None
                    THEN Err(PublishError_js_interop("Content is not a string"))
                    ELSE read_entries(
                             entries, i + 1,
                             IF \/ ends_with(path, <<".", "m", "d">>)
                                \/ ends_with(path, <<".", "m", "a", "r", "k", "d", "o", "w", "n">>)
                             THEN MapInsert(kept, path, file_obj.content[1])
                             ELSE kept)

\* read_graph_files: l is the input directory, whether the host can list it,
\* and the entries it lists
read_graph_files(l) ==
    LET valid == validate_input_path(l.input_dir)
    IN IF ~valid.ok THEN valid
       ELSE IF ~l.readable THEN Err(PublishError_io("Failed to read directory"))
       ELSE read_entries(l.entries, 1, EmptyMap)

\* input directories: relative, empty, traversing, absolute, absolute under /tmp
InputDirs ==
    {<<".", "/", "g">>, <<>>, <<".", ".", "/", "g">>, <<"/", "e", "t", "c">>,
     <<"/", "t", "m", "p", "/", "g">>}

\* paths the host may list
ListedPaths ==
    {<<>>,
     <<"a", ".", "m", "d">>,
     <<"b", ".", "m", "a", "r", "k", "d", "o", "w", "n">>,
     <<"c", ".", "t", "x", "t">>,
     <<".", ".", "/", "a", ".", "m", "d">>,
     <<"a", Nul, ".", "m", "d">>,
     <<"/", "a", ".", "m", "d">>,
     <<"\\", "a", ".", "m", "d">>,
     <<"/", "e", "t", "c", "/", "x">>}

ListedContents == {<<"-", " ", "[", "[", "a", ".", "m", "d", "]", "]">>}

FileObjs ==
    [path    : {None} \cup {Some(p) : p \in ListedPaths},
     content : {None} \cup {Some(t) : t \in ListedContents}]

InitRead ==
    /\ InitGraph
    /\ IdleParser
    /\ IdleAnalytics
    /\ IdleThreads
    /\ listing \in [input_dir : InputDirs,
                     readable  : BOOLEAN,
                     entries   : UNION {[1..n -> FileObjs] : n \in 0..MaxListing}]
    /\ files = EmptyMap
    /\ pending = {}
    /\ builder = "read_graph_files"
    /\ outcome = "running"

\* publish, parse_graph and get_backlinks of publish-spa call read_graph_files:
\* an error is returned to the caller, a HashMap of files goes to the loop
ReadGraphFiles ==
    /\ builder = "read_graph_files" /\ outcome = "running"
    /\ LET r == read_graph_files(listing)
       IN /\ files' = IF r.ok THEN r.value ELSE EmptyMap
          /\ pending' = IF r.ok THEN DOMAIN r.value ELSE {}
          /\ builder' = IF r.ok THEN "publish" ELSE builder
          /\ outcome' = IF r.ok THEN outcome ELSE "error"
    /\ UNCHANGED <<graph, calls, in_content, in_path, parsed, listing, query, conc>>

NextRead ==
    \/ ReadGraphFiles
    \/ \E p \in pending : BuildStep(p)
    \/ BuildDone

SpecRead == InitRead /\ [][NextRead]_vars

\* ------------------------------------------------------- graph analytics
\* The analytics of logseq-publisher-rust work on a snapshot of the graph: a
\* call is in progress from its start to its result and no page is added
\* meanwhile.  Edges lead from a page to the link targets that have a page.

\* the outbound links of p, none for a path without a page
out_links(g, p) == IF p \in DOMAIN g.pages THEN g.pages[p].links ELSE <<>>

\* a call ends when its work list is empty; a shortest-path search that has
\* not met its target has no result
finish(q) ==
    IF q.status = "running" /\ q.frontier = <<>>
    THEN [q EXCEPT !.status = "done",
                   !.result = IF q.op = "find_shortest_path" THEN None ELSE q.visited]
    ELSE q

\* the first state of a call: an unknown start path gives the empty result
start_query(g, op, start, target, max_depth) ==
    LET known == start \in DOMAIN g.pages
        depth_first == op = "depth_first_search"
    IN finish([op        |-> op,
               status    |-> "running",
               start     |-> start,
               target    |-> target,
               max_depth |-> max_depth,
               frontier  |-> IF known THEN <<[node |-> start, depth |-> 0]>> ELSE <<>>,
               visited   |-> IF known /\ ~depth_first THEN <<start>> ELSE <<>>,
               parent    |-> EmptyMap,
               result    |-> <<>>])

\* breadth-first expansion putting every linked page on the queue again
RECURSIVE enqueue_links_revisiting(_, _, _, _, _)
enqueue_links_revisiting(g, q, node, depth, links) ==
    IF links = <<>> THEN q
    ELSE LET link == Head(links)
             fresh == link \in DOMAIN g.pages
             next == IF fresh
                     THEN [q EXCEPT !.visited  = Append(@, link),
                                    !.frontier = Append(@, [node |-> link, depth |-> depth + 1]),
                                    !.parent   = MapInsert(@, link, node)]
                     ELSE q
         IN enqueue_links_revisiting(g, next, node, depth, Tail(links))

\* breadth-first expansion of node: every linked page not visited before is
\* marked visited, queued one hop deeper and given node as its predecessor
RECURSIVE enqueue_links(_, _, _, _, _)
enqueue_links(g, q, node, depth, links) ==
    IF links = <<>> THEN q
    ELSE LET link == Head(links)
             fresh == link \in DOMAIN g.pages /\ link \notin Range(q.visited)
             next == IF fresh
                     THEN [q EXCEPT !.visited  = Append(@, link),
                                    !.frontier = Append(@, [node |-> link, depth |-> depth + 1]),
                                    !.parent   = MapInsert(@, link, node)]
                     ELSE q
         IN enqueue_links(g, next, node, depth, Tail(links))

\* depth-first expansion: the linked pages not visited yet are pushed in link
\* order, so that the one pushed last is visited next
RECURSIVE push_links(_, _, _, _, _)
push_links(g, q, node, depth, links) ==
    IF links = <<>> THEN q
    ELSE LET link == Head(links)
             fresh == link \in DOMAIN g.pages /\ link \notin Range(q.visited)
             next == IF fresh
                     THEN [q EXCEPT !.frontier = Append(@, [node |-> link, depth |-> depth + 1])]
                     ELSE q
         IN push_links(g, next, node, depth, Tail(links))

\* the path from the start to node along the predecessors
RECURSIVE path_to(_, _, _)
path_to(parent, start, node) ==
    IF node = start THEN <<start>> ELSE Append(path_to(parent, start, parent[node]), node)

\* the hop bound of traverse_from expanding the nodes at the bound as well
at_bound_inclusive(q, depth) == q.op = "traverse_from" /\ depth > q.max_depth

\* the hop bound of traverse_from: a node max_depth hops away is not expanded
at_bound(q, depth) == q.op = "traverse_from" /\ depth >= q.max_depth

\* a shortest-path search following the predecessors from the wrong end
found_path_reversed(q) ==
    LET forward == path_to(q.parent, q.start, q.target)
    IN [i \in 1..Len(forward) |-> forward[Len(forward) + 1 - i]]

\* the result of a shortest-path search that takes its target off the queue
found_path(q) == path_to(q.parent, q.start, q.target)

\* one iteration of the loop of a call in progress
traversal_step(g, q) ==
    IF q.frontier = <<>> THEN finish(q)
    ELSE IF q.op = "depth_first_search"
    THEN LET cur  == q.frontier[Len(q.frontier)]
             rest == [q EXCEPT !.frontier = SubSeq(@, 1, Len(@) - 1)]
         IN IF cur.node \in Range(q.visited) THEN finish(rest)
            ELSE finish(push_links(g, [rest EXCEPT !.visited = Append(@, cur.node)],
                                   cur.node, cur.depth, out_links(g, cur.node)))
    ELSE LET cur  == Head(q.frontier)
             rest == [q EXCEPT !.frontier = Tail(@)]
         IN IF q.op = "find_shortest_path" /\ cur.node = q.target
            THEN [q EXCEPT !.status = "done", !.frontier = <<>>,
                           !.result = Some(found_path(q))]
            ELSE IF at_bound(q, cur.depth) THEN finish(rest)
            ELSE finish(enqueue_links(g, rest, cur.node, cur.depth, out_links(g, cur.node)))

\* the call run to its result
RECURSIVE run_query(_, _)
run_query(g, q) == IF q.status = "done" THEN q ELSE run_query(g, traversal_step(g, q))

\* Graph::traverse_from(start, max_depth)
traverse_from(g, start, max_depth) ==
    run_query(g, start_query(g, "traverse_from", start, <<>>, max_depth)).result

\* a path without a page
nowhere == <<"d">>

QueryPaths == Paths \cup {nowhere}

\* the link lists of the pages of a snapshot: none, a self-link or a link to
\* one page, two links
SnapshotLinks == {<<>>, <<a>>, <<b>>, <<c>>, <<b, c>>}

SnapshotPages == {MkPage(p, PlainBody, links) : p \in Paths, links \in SnapshotLinks}

InitAnalytics ==
    /\ InitGraph
    /\ IdleParser
    /\ IdleBuilder
    /\ IdleReader
    /\ IdleThreads
    /\ IdleAnalytics

\* a page of a new path is added between two analytics calls
AddSnapshotPage(page) ==
    /\ query.status # "running"
    /\ page.path \notin DOMAIN graph.pages
    /\ graph' = add_page(graph, page)
    /\ calls' = Append(calls, page)
    /\ query' = NoQuery
    /\ UNCHANGED <<in_content, in_path, parsed, files, pending, builder, outcome,
                   listing, conc>>

\* graph.traverse_from(start, max_depth) is called
StartTraverse(start, max_depth) ==
    /\ query.status # "running"
    /\ query' = start_query(graph, "traverse_from", start, <<>>, max_depth)
    /\ UNCHANGED <<graph, calls, in_content, in_path, parsed, files, pending, builder,
                   outcome, listing, conc>>

\* graph.breadth_first_search(start) is called
StartBfs(start) ==
    /\ query.status # "running"
    /\ query' = start_query(graph, "breadth_first_search", start, <<>>, 0)
    /\ UNCHANGED <<graph, calls, in_content, in_path, parsed, files, pending, builder,
                   outcome, listing, conc>>

\* graph.depth_first_search(start) is called
StartDfs(start) ==
    /\ query.status # "running"
    /\ query' = start_query(graph, "depth_first_search", start, <<>>, 0)
    /\ UNCHANGED <<graph, calls, in_content, in_path, parsed, files, pending, builder,
                   outcome, listing, conc>>

\* graph.find_shortest_path(start, target) is called
StartShortestPath(start, target) ==
    /\ query.status # "running"
    /\ query' = start_query(graph, "find_shortest_path", start, target, 0)
    /\ UNCHANGED <<graph, calls, in_content, in_path, parsed, files, pending, builder,
                   outcome, listing, conc>>

\* the call in progress runs one iteration of its loop
TraversalStep ==
    /\ query.status = "running"
    /\ query' = traversal_step(graph, query)
    /\ UNCHANGED <<graph, calls, in_content, in_path, parsed, files, pending, builder,
                   outcome, listing, conc>>

NextAnalytics ==
    \/ \E page \in SnapshotPages : AddSnapshotPage(page)
    \/ \E start \in QueryPaths : \E max_depth \in 0..MaxDepth : StartTraverse(start, max_depth)
    \/ \E start \in QueryPaths : StartBfs(start)
    \/ \E start \in QueryPaths : StartDfs(start)
    \/ \E start \in QueryPaths : \E target \in QueryPaths : StartShortestPath(start, target)
    \/ TraversalStep

\* a call, once made, runs on: it returns synchronously
SpecAnalytics == InitAnalytics /\ [][NextAnalytics]_vars /\ WF_vars(TraversalStep)

\* ------------------------------------- shared graph (Arc<RwLock<Graph>>)

Writers == 1..MaxWriters

Readers == 1..MaxReaders

\* format!("page{}.md", i): the path of the page thread i adds
ThreadPaths == <<a, b, c>>

\* the page thread w adds: without links, or linking to the page of the next thread
ThreadPages(w) ==
    {MkPage(ThreadPaths[w], PlainBody, <<>>),
     MkPage(ThreadPaths[w], PlainBody, <<ThreadPaths[(w % MaxWriters) + 1]>>)}

\* Mutex::lock and RwLock::write return once no thread holds the lock
write_admitted(lk) == lk.writer = None /\ lk.readers = {}

\* a read lock handed out whoever holds the lock
read_admitted_always(lk) == TRUE

\* RwLock::read returns once no writer holds the lock
read_admitted(lk) == lk.writer = None

InitConc ==
    /\ InitGraph
    /\ IdleParser
    /\ IdleBuilder
    /\ IdleReader
    /\ IdleAnalytics
    /\ \E pages \in [Writers -> UNION {ThreadPages(w) : w \in Writers}] :
           /\ \A w \in Writers : pages[w] \in ThreadPages(w)
           /\ conc = [writer  |-> None,
                      readers |-> {},
                      page    |-> pages,
                      wpc     |-> [w \in Writers |-> "start"],
                      rpc     |-> [r \in Readers |-> "start"],
                      seen    |-> [r \in Readers |-> [pages |-> <<>>, backlinks |-> <<>>]]]

\* writer w: let mut g = graph.write().unwrap()
WriteLock(w) ==
    /\ conc.wpc[w] = "start"
    /\ write_admitted(conc)
    /\ conc' = [conc EXCEPT !.writer = Some(w), !.wpc[w] = "links"]
    /\ UNCHANGED <<graph, calls, in_content, in_path, parsed, files, pending, builder,
                   outcome, listing, query>>

\* writer w inside add_page: the loop over page.links
WriteLinks(w) ==
    /\ conc.wpc[w] = "links"
    /\ graph' = [graph EXCEPT !.backlinks =
                     push_backlinks(graph.backlinks, conc.page[w].links, conc.page[w].path)]
    /\ conc' = [conc EXCEPT !.wpc[w] = "insert"]
    /\ UNCHANGED <<calls, in_content, in_path, parsed, files, pending, builder, outcome,
                   listing, query>>

\* writer w inside add_page: self.pages.insert(path, page)
WriteInsert(w) ==
    /\ conc.wpc[w] = "insert"
    /\ graph' = [graph EXCEPT !.pages =
                     MapInsert(graph.pages, conc.page[w].path, conc.page[w])]
    /\ calls' = Append(calls, conc.page[w])
    /\ conc' = [conc EXCEPT !.wpc[w] = "unlock"]
    /\ UNCHANGED <<in_content, in_path, parsed, files, pending, builder, outcome,
                   listing, query>>

\* writer w: the guard g is dropped at the end of the closure
WriteUnlock(w) ==
    /\ conc.wpc[w] = "unlock"
    /\ conc' = [conc EXCEPT !.writer = None, !.wpc[w] = "done"]
    /\ UNCHANGED <<graph, calls, in_content, in_path, parsed, files, pending, builder,
                   outcome, listing, query>>

\* reader r: let g = graph.read().unwrap()
ReadLock(r) ==
    /\ conc.rpc[r] = "start"
    /\ read_admitted(conc)
    /\ conc' = [conc EXCEPT !.readers = @ \cup {r}, !.rpc[r] = "pages"]
    /\ UNCHANGED <<graph, calls, in_content, in_path, parsed, files, pending, builder,
                   outcome, listing, query>>

\* reader r: g.get_page(..)
ReadPages(r) ==
    /\ conc.rpc[r] = "pages"
    /\ conc' = [conc EXCEPT !.seen[r].pages = [p \in Paths |-> get_page(graph, p)],
                            !.rpc[r] = "backlinks"]
    /\ UNCHANGED <<graph, calls, in_content, in_path, parsed, files, pending, builder,
                   outcome, listing, query>>

\* reader r: g.get_backlinks(..)
ReadBacklinks(r) ==
    /\ conc.rpc[r] = "backlinks"
    /\ conc' = [conc EXCEPT !.seen[r].backlinks = [t \in Paths |-> get_backlinks(graph, t)],
                            !.rpc[r] = "unlock"]
    /\ UNCHANGED <<graph, calls, in_content, in_path, parsed, files, pending, builder,
                   outcome, listing, query>>

\* reader r: the guard g is dropped at the end of the closure
ReadUnlock(r) ==
    /\ conc.rpc[r] = "unlock"
    /\ conc' = [conc EXCEPT !.readers = @ \ {r}, !.rpc[r] = "done"]
    /\ UNCHANGED <<graph, calls, in_content, in_path, parsed, files, pending, builder,
                   outcome, listing, query>>

NextConc ==
    \/ \E w \in Writers : WriteLock(w)
    \/ \E w \in Writers : WriteLinks(w)
    \/ \E w \in Writers : WriteInsert(w)
    \/ \E w \in Writers : WriteUnlock(w)
    \/ \E r \in Readers : ReadLock(r)
    \/ \E r \in Readers : ReadPages(r)
    \/ \E r \in Readers : ReadBacklinks(r)
    \/ \E r \in Readers : ReadUnlock(r)

SpecConc == InitConc /\ [][NextConc]_vars

\* ------------------------------------------------------------ graph claims

\* every path a page or a link can name in the graph specification
Targets == Paths \cup DOMAIN graph.backlinks

\* the paths of the pages currently in the graph whose links list contains t
CurrentSources(t) == {p \in DOMAIN graph.pages : t \in Range(graph.pages[p].links)}

\* history: the paths handed to add_page so far
AddedPaths == {calls[i].path : i \in DOMAIN calls}

\* history: the page most recently handed to add_page for path p
LastAdded(p) ==
    LET last == CHOOSE i \in DOMAIN calls :
                    /\ calls[i].path = p
                    /\ \A j \in DOMAIN calls : calls[j].path = p => j <= i
    IN calls[last]

\* the blocks of a forest in pre-order
RECURSIVE Preorder(_)
Preorder(blocks) ==
    IF blocks = <<>> THEN <<>>
    ELSE <<Head(blocks)>> \o Preorder(Head(blocks).children) \o Preorder(Tail(blocks))

\* C1: after any sequence of add_page calls, for every target T, get_backlinks(T)
\* holds exactly the paths of the pages currently in the graph that list T.
C1_BacklinksExact ==
    \A t \in Targets : Range(get_backlinks(graph, t)) = CurrentSources(t)

\* C2: for every page P in the graph and every target T, P.path occurs in
\* get_backlinks(T) as often as T occurs in P.links, also after re-adding a path.
C2_OncePerOccurrence ==
    \A p \in DOMAIN graph.pages : \A t \in Targets :
        Occurrences(get_backlinks(graph, t), p) = Occurrences(graph.pages[p].links, t)

\* C3: one Page per path: add_page of a present path leaves page_count unchanged,
\* add_page of a new path raises it by one, and get_page(path) then returns the
\* page just added in full (nothing kept from the page it replaces).
C3_ReplaceNotMerge ==
    [][\A page \in PageInputs :
          calls' = Append(calls, page) =>
              /\ get_page(graph', page.path) = Some(page)
              /\ page_count(graph') =
                     IF page.path \in AddedPaths THEN page_count(graph)
                     ELSE page_count(graph) + 1
              /\ page_count(graph') = Cardinality(AddedPaths \cup {page.path})]_vars

\* a path was added twice with different title, properties, blocks, tags and links
C3_Witness ==
    /\ Len(calls) >= 2
    /\ calls[1].path = calls[2].path
    /\ calls[1].title # calls[2].title
    /\ calls[1].blocks # calls[2].blocks
    /\ calls[1].links # calls[2].links
    /\ page_count(graph) = 1
    /\ get_page(graph, calls[2].path) = Some(calls[2])

\* C4: add_page never removes or reorders a backlink entry: every list before the
\* call is a prefix of the list after it; a replaced page stays in the lists of
\* the targets only its old version linked to, and every target of the new
\* version gains an entry for the page.
C4_BacklinksOnlyGrow ==
    [][\A page \in PageInputs :
          calls' = Append(calls, page) =>
              /\ \A t \in Targets :
                     IsPrefix(get_backlinks(graph, t), get_backlinks(graph', t))
              /\ \A t \in Targets :
                     (/\ page.path \in DOMAIN graph.pages
                      /\ t \in Range(graph.pages[page.path].links)
                      /\ t \notin Range(page.links))
                         => /\ page.path \in Range(get_backlinks(graph', t))
                            /\ get_backlinks(graph', t) = get_backlinks(graph, t)
              /\ \A t \in Range(page.links) :
                     Occurrences(get_backlinks(graph', t), page.path) =
                         Occurrences(get_backlinks(graph, t), page.path)
                             + Occurrences(page.links, t)]_vars

\* page a linking to b and c was replaced by a version linking to a only, and
\* b still lists a
C4_Witness ==
    /\ Len(calls) >= 2
    /\ calls[1].path = a /\ calls[1].links = <<b, c>>
    /\ calls[2].path = a /\ calls[2].links = <<a>>
    /\ get_backlinks(graph, b) = <<a>>
    /\ get_backlinks(graph, a) = <<a>>

\* C8: lookups never fail: get_page of a path never added is None, get_backlinks
\* of a path nothing ever linked to is the empty sequence, and a dangling target
\* has no page while get_backlinks lists every page that links to it.
C8_LookupsTotal ==
    \A p \in Targets :
        /\ get_page(graph, p) \in {None} \cup {Some(pg) : pg \in PageInputs}
        /\ get_backlinks(graph, p) \in Seq(Paths)
        /\ p \notin AddedPaths => get_page(graph, p) = None
        /\ (\A i \in DOMAIN calls : p \notin Range(calls[i].links))
               => get_backlinks(graph, p) = <<>>
        /\ (p \notin AddedPaths /\ CurrentSources(p) # {})
               => /\ get_page(graph, p) = None
                  /\ CurrentSources(p) \subseteq Range(get_backlinks(graph, p))

\* c is linked to by the pages a and b and has no page itself
C8_Witness ==
    /\ c \notin AddedPaths
    /\ CurrentSources(c) = {a, b}
    /\ get_page(graph, c) = None
    /\ Range(get_backlinks(graph, c)) = {a, b}
    /\ get_backlinks(graph, b) = <<>>

\* C9: stats() reports page_count = the number of distinct paths added,
\* total_blocks = the blocks, descendants included, of the pages currently in the
\* graph, total_links = the sum of their links' lengths; a superseded version of
\* a replaced page counts in none of the three.
C9_StatsOfCurrentPages ==
    LET st == stats(graph)
    IN /\ st.page_count = Cardinality(AddedPaths)
       /\ st.total_blocks =
              SumValues([p \in AddedPaths |-> Len(Preorder(LastAdded(p).blocks))])
       /\ st.total_links = SumValues([p \in AddedPaths |-> Len(LastAdded(p).links)])

\* a page with blocks and links was replaced by one with neither, next to a page
\* that has blocks
C9_Witness ==
    /\ Len(calls) = 3
    /\ calls[1].path = calls[3].path
    /\ calls[2].path # calls[1].path
    /\ calls[1].blocks # <<>> /\ calls[1].links # <<>>
    /\ calls[3].blocks = <<>> /\ calls[3].links = <<>>
    /\ calls[2].blocks # <<>>
    /\ stats(graph).total_blocks = 3
    /\ stats(graph).page_count = 2

\* the graph built from a -> [b, c], b -> [a], c -> [] in some order
ScenarioABC ==
    /\ Len(calls) = 3
    /\ AddedPaths = {a, b, c}
    /\ \A i \in DOMAIN calls :
           calls[i].links = (IF calls[i].path = a THEN <<b, c>>
                             ELSE IF calls[i].path = b THEN <<a>> ELSE <<>>)

\* C10 as stated: in the graph of a -> [b, c], b -> [a], c -> [], built in any
\* order, get_backlinks(b) = [a], get_backlinks(a) = [b] and orphan_pages is 1.
C10_ScenarioOneOrphan ==
    ScenarioABC =>
        /\ get_backlinks(graph, b) = <<a>>
        /\ get_backlinks(graph, a) = <<b>>
        /\ stats(graph).orphan_pages = 1

\* C10 amended: in that graph get_backlinks(b) = [a], get_backlinks(a) = [b],
\* get_backlinks(c) = [a], and orphan_pages is 0: c has no links but a links to it.
C10_ScenarioNoOrphan ==
    ScenarioABC =>
        /\ get_backlinks(graph, b) = <<a>>
        /\ get_backlinks(graph, a) = <<b>>
        /\ get_backlinks(graph, c) = <<a>>
        /\ stats(graph).orphan_pages = 0

\* the scenario graph, built with c added first
C10_Witness ==
    /\ ScenarioABC
    /\ calls[1].path = c
    /\ stats(graph).page_count = 3
    /\ stats(graph).orphan_pages = 0

\* C13: serializing a graph and deserializing the result yields a graph with the
\* same page count and, for every path, a page with identical block tree, tags,
\* links and properties, and the same backlink lists, for every graph reachable
\* by add_page.
C13_RoundTrip ==
    LET r == de_graph(ser_graph(graph))
    IN /\ r.ok
       /\ page_count(r.value) = page_count(graph)
       /\ \A p \in Paths :
              /\ (get_page(r.value, p) = None) <=> (get_page(graph, p) = None)
              /\ get_page(graph, p) # None =>
                     LET restored == get_page(r.value, p)[1]
                         page     == get_page(graph, p)[1]
                     IN /\ restored.blocks = page.blocks
                        /\ restored.tags = page.tags
                        /\ restored.links = page.links
                        /\ restored.properties = page.properties
                        /\ restored.path = page.path
                        /\ restored.title = page.title
       /\ \A t \in Targets : get_backlinks(r.value, t) = get_backlinks(graph, t)

\* a graph of two pages, one with nested blocks, properties and tags, and with
\* backlink lists, has gone through the round trip
C13_Witness ==
    /\ page_count(graph) = 2
    /\ \E p \in DOMAIN graph.pages :
           /\ \E i \in DOMAIN graph.pages[p].blocks : graph.pages[p].blocks[i].children # <<>>
           /\ graph.pages[p].properties # EmptyMap
           /\ graph.pages[p].tags # <<>>
    /\ \E t \in DOMAIN graph.backlinks : Len(graph.backlinks[t]) >= 2
    /\ de_graph(ser_graph(graph)) = Ok(graph)

\* every path recorded in a backlink list of g has its page stored in g
NoHalfAddedPage(g) ==
    \A t \in DOMAIN g.backlinks : Range(g.backlinks[t]) \subseteq DOMAIN g.pages

\* C14: when N threads each add one page of a distinct path to a shared graph,
\* each under the exclusive lock, then in every interleaving the final graph has
\* page_count N and every added page is retrievable, and a reader holding the
\* shared lock never sees backlink entries of a page that is not stored yet.
C14_LockedAddsAreAtomic ==
    /\ (\A w \in Writers : conc.wpc[w] = "done") =>
           /\ page_count(graph) = MaxWriters
           /\ \A w \in Writers : get_page(graph, conc.page[w].path) = Some(conc.page[w])
    /\ \A r \in Readers :
           /\ r \in conc.readers => NoHalfAddedPage(graph)
           /\ conc.rpc[r] \in {"unlock", "done"} =>
                  \A t \in Paths : \A p \in Range(conc.seen[r].backlinks[t]) :
                      conc.seen[r].pages[p] # None

\* every thread is done; the reader took the lock between the two adds and saw
\* the first writer's page with its backlink entry
C14_Witness ==
    /\ \A w \in Writers : conc.wpc[w] = "done"
    /\ \A r \in Readers : conc.rpc[r] = "done"
    /\ page_count(graph) = MaxWriters
    /\ \E r \in Readers :
           /\ \E p \in Paths : conc.seen[r].pages[p] # None
           /\ \E p \in Paths : conc.seen[r].pages[p] = None
           /\ \E t \in Paths : conc.seen[r].backlinks[t] # <<>>

\* the path is empty, contains "..", contains a null byte or is absolute
Rejected(path) ==
    \/ path = <<>>
    \/ \E i \in 1..(Len(path) - 1) : path[i] = "." /\ path[i + 1] = "."
    \/ Nul \in Range(path)
    \/ path # <<>> /\ path[1] \in {"/", "\\"}

\* the directory listing holds an entry with such a path
ListsRejectedPath ==
    \E i \in DOMAIN listing.entries :
        listing.entries[i].path # None /\ Rejected(listing.entries[i].path[1])

\* C15: no file whose path is empty, contains "..", contains a null byte or is
\* absolute reaches the parser: read_graph_files returns an error and hands over
\* no file as soon as the listing holds such a path, and only files whose path
\* ends in .md or .markdown are handed over.
C15_RejectedPathsNeverParsed ==
    (builder # "read_graph_files" \/ outcome # "running") =>
        /\ ListsRejectedPath => (outcome = "error" /\ files = EmptyMap /\ calls = <<>>)
        /\ \A p \in DOMAIN files :
               /\ ~Rejected(p)
               /\ \/ ends_with(p, <<".", "m", "d">>)
                  \/ ends_with(p, <<".", "m", "a", "r", "k", "d", "o", "w", "n">>)
        /\ \A i \in DOMAIN calls : calls[i].path \in DOMAIN files

\* a listing of a.md and c.txt was read, a.md alone was handed over and parsed
C15_Witness ==
    /\ outcome = "ok"
    /\ Len(listing.entries) = 2
    /\ \E i \in DOMAIN listing.entries :
           listing.entries[i].path = Some(<<"c", ".", "t", "x", "t">>)
    /\ DOMAIN files = {<<"a", ".", "m", "d">>}
    /\ Len(calls) = 1

\* -------------------------------------------------------- analytics claims

\* the pages at most n hops from the page x along links between pages
RECURSIVE WithinHops(_, _, _)
WithinHops(g, x, n) ==
    IF x \notin DOMAIN g.pages THEN {}
    ELSE IF n = 0 THEN {x}
    ELSE LET nearer == WithinHops(g, x, n - 1)
         IN nearer \cup {t \in DOMAIN g.pages :
                            \E p \in nearer : t \in Range(g.pages[p].links)}

\* the pages reachable from x
Reachable(g, x) == WithinHops(g, x, Cardinality(DOMAIN g.pages))

\* the least number of hops from x to a page y reachable from it
HopDistance(g, x, y) ==
    CHOOSE n \in 0..Cardinality(DOMAIN g.pages) :
        /\ y \in WithinHops(g, x, n)
        /\ \A m \in 0..(n - 1) : y \notin WithinHops(g, x, m)

NoDuplicates(seq) == \A i, j \in DOMAIN seq : seq[i] = seq[j] => i = j

\* the pages of g form one directed cycle
IsCycle(g) ==
    /\ DOMAIN g.pages # {}
    /\ \A p \in DOMAIN g.pages :
           /\ Len(g.pages[p].links) = 1
           /\ Reachable(g, p) = DOMAIN g.pages

\* the pages of g form one chain that starts at x
IsChainFrom(g, x) ==
    /\ Reachable(g, x) = DOMAIN g.pages
    /\ \A p \in DOMAIN g.pages : Len(g.pages[p].links) <= 1
    /\ \E p \in DOMAIN g.pages : out_links(g, p) = <<>>
    /\ \A p \in DOMAIN g.pages : Range(g.pages[p].links) \subseteq DOMAIN g.pages

Traversals == {"traverse_from", "breadth_first_search", "depth_first_search"}

\* no call lists a path twice, and on a directed cycle a traversal that its
\* bound does not cut short returns the pages of the cycle
C16_VisitOnce ==
    /\ NoDuplicates(query.visited)
    /\ (query.status = "done" /\ query.op \in Traversals) =>
           /\ NoDuplicates(query.result)
           /\ (/\ IsCycle(graph)
               /\ query.start \in DOMAIN graph.pages
               /\ query.op = "traverse_from" => query.max_depth >= page_count(graph) - 1)
                  => /\ Range(query.result) = DOMAIN graph.pages
                     /\ Len(query.result) = page_count(graph)

C17_BoundedTraversal ==
    (query.status = "done" /\ query.op = "traverse_from") =>
        LET x == query.start
            n == query.max_depth
        IN /\ n = 0 => Range(query.result) \subseteq {x}
           /\ Range(query.result) \subseteq WithinHops(graph, x, n)
           /\ Len(query.result) <= Cardinality(Reachable(graph, x))
           /\ Len(query.result) <= Len(traverse_from(graph, x, n + 1))
           /\ IsChainFrom(graph, x) =>
                  /\ Len(query.result) <= n + 1
                  /\ n >= page_count(graph) => Len(query.result) = page_count(graph)

\* on the chain a -> b -> c, traverse_from(a, 1) has returned a and b
C17_Witness ==
    /\ page_count(graph) = 3
    /\ IsChainFrom(graph, a)
    /\ out_links(graph, a) = <<b>>
    /\ query.status = "done"
    /\ query.op = "traverse_from"
    /\ query.start = a
    /\ query.max_depth = 1
    /\ query.result = <<a, b>>

\* C18: find_shortest_path(x, y) returns a sequence of paths that starts with x,
\* ends with y, follows an outbound link at each step and has as many steps as
\* the breadth-first hop distance from x to y; it returns no result when y is
\* not reachable from x, and never an error.
C18_ShortestPath ==
    (query.status = "done" /\ query.op = "find_shortest_path") =>
        LET x == query.start
            y == query.target
        IN IF y \in Reachable(graph, x)
           THEN /\ query.result # None
                /\ LET path == query.result[1]
                   IN /\ path[1] = x
                      /\ path[Len(path)] = y
                      /\ \A i \in 1..(Len(path) - 1) :
                             path[i + 1] \in Range(out_links(graph, path[i]))
                      /\ Len(path) = HopDistance(graph, x, y) + 1
           ELSE query.result = None

\* a links to b and c, b links to c: the path found from a to c is the direct one
C18_Witness ==
    /\ out_links(graph, a) = <<b, c>>
    /\ out_links(graph, b) = <<c>>
    /\ c \in DOMAIN graph.pages
    /\ query.status = "done"
    /\ query.op = "find_shortest_path"
    /\ query.start = a
    /\ query.target = c
    /\ query.result = Some(<<a, c>>)

\* the entries of the list that pages outside the set contributed
EntriesOfOthers(list, set) == SelectSeq(list, LAMBDA source : source \notin set)

\* C19: an incremental update for a set of changed paths re-parses only those
\* paths and leaves every other page of the graph, and the backlink entries the
\* other pages contributed, unchanged; a changed path that is new adds one node
\* and its outbound edges.
C19_UpdateLeavesOthers ==
    [][(builder = "parse_files again" /\ builder' = "parse_files again") =>
          LET changed == DOMAIN files
              others  == DOMAIN graph.pages \ changed
          IN /\ \A q \in others : get_page(graph', q) = get_page(graph, q)
             /\ \A t \in DOMAIN graph.backlinks \cup DOMAIN graph'.backlinks :
                    EntriesOfOthers(get_backlinks(graph', t), changed) =
                        EntriesOfOthers(get_backlinks(graph, t), changed)
             /\ calls' # calls =>
                    LET page == calls'[Len(calls')]
                    IN /\ calls' = Append(calls, page)
                       /\ page.path \in changed
                       /\ page.path \notin DOMAIN graph.pages =>
                              /\ page_count(graph') = page_count(graph) + 1
                              /\ get_page(graph', page.path) = Some(page)
                              /\ \A t \in Range(page.links) :
                                     page.path \in Range(get_backlinks(graph', t))]_vars

\* a.md and b.md both link to b.md; the update brought the new file c.md, which
\* links to b.md as well, and nothing else
C19_Witness ==
    /\ builder = "parse_files again"
    /\ outcome = "ok"
    /\ DOMAIN files = {FileNames[3]}
    /\ page_count(graph) = 3
    /\ Len(calls) = 3
    /\ Range(get_backlinks(graph, FileNames[2])) = {FileNames[1], FileNames[2], FileNames[3]}
    /\ get_backlinks(graph, FileNames[2])[3] = FileNames[3]

\* C29: in every reachable graph state the backlink index is complete for the
\* current pages: for every page P of the graph and every target T in P.links,
\* P.path occurs in get_backlinks(T); the index may hold more, never fewer.
C29_BacklinksComplete ==
    \A p \in DOMAIN graph.pages :
        \A i \in DOMAIN graph.pages[p].links :
            p \in Range(get_backlinks(graph, graph.pages[p].links[i]))

\* a page was replaced by one with other links: the index lists it under its
\* new target and still under a target it no longer links to
C29_Witness ==
    /\ Len(calls) >= 2
    /\ \E p \in DOMAIN graph.pages :
           /\ graph.pages[p].links # <<>>
           /\ \E i, j \in DOMAIN calls : i < j /\ calls[i].path = p /\ calls[j].path = p
           /\ \E t \in Targets :
                  /\ t \notin Range(graph.pages[p].links)
                  /\ p \in Range(get_backlinks(graph, t))

\* C30: after any sequence of add_page calls, stats().orphan_pages is the number
\* of pages of the graph that have no outbound links and that no page currently
\* in the graph links to; a page whose only inbound link came from a version of
\* a page that has since been replaced is counted as an orphan.
C30_OrphansOfCurrentLinks ==
    stats(graph).orphan_pages =
        Cardinality({p \in DOMAIN graph.pages :
                        graph.pages[p].links = <<>> /\ CurrentSources(p) = {}})

\* ----------------------------------------------------------- parser claims

\* the first line of the content is the delimiter and no later line is
Unclosed(content) ==
    LET lines == str_lines(content)
    IN /\ lines # <<>>
       /\ lines[1] = Delimiter
       /\ \A i \in 2..Len(lines) : lines[i] # Delimiter

\* C5: if the first line is exactly --- and no later line is, parse_logseq_page
\* fails with an UnclosedFrontmatter error that names the given path.
C5_UnclosedErrorNamesPath ==
    (parsed # <<>> /\ Unclosed(in_content)) =>
        LET r == parsed[1].result
        IN /\ ~r.ok
           /\ r.error.message = UnclosedFrontmatter
           /\ "file" \in DOMAIN r.error
           /\ r.error.file = in_path

\* C6: unclosed frontmatter is the only failure of the parser: a content whose
\* first line is not --- or whose frontmatter is closed parses to a Page of the
\* given path, and every error is the unclosed-frontmatter error of such a content.
C6_OnlyUnclosedFails ==
    parsed # <<>> =>
        LET r == parsed[1].result
        IN /\ ~Unclosed(in_content) => (r.ok /\ r.value.path = in_path)
           /\ ~r.ok => (Unclosed(in_content) /\ r.error.message = UnclosedFrontmatter)

\* a closed frontmatter holding a line that is neither a key: value pair nor
\* blank has parsed to a Page without properties
C6_Witness ==
    /\ parsed # <<>>
    /\ LET lines == str_lines(in_content)
       IN /\ Len(lines) = 3
          /\ lines[1] = Delimiter
          /\ lines[2] = <<"-", " ", "[", "[", "b", "]", "]">>
          /\ lines[3] = Delimiter
    /\ parsed[1].result.ok
    /\ parsed[1].result.value.properties = EmptyMap
    /\ parsed[1].result.value.blocks = <<>>

\* every child of every block of the forest has a greater level than its parent
RECURSIVE ChildrenDeeper(_)
ChildrenDeeper(blocks) ==
    \A i \in DOMAIN blocks :
        /\ \A j \in DOMAIN blocks[i].children :
               blocks[i].children[j].level > blocks[i].level
        /\ ChildrenDeeper(blocks[i].children)

\* C20: in every Page the parser produces, each child Block's level is strictly
\* greater than the level of its parent Block, for every input (tabs, two-space
\* groups, odd single spaces, mixed indentation).
C20_ChildLevelGreater ==
    (parsed # <<>> /\ parsed[1].result.ok) =>
        ChildrenDeeper(parsed[1].result.value.blocks)

\* the lines of the content after its frontmatter, as parse_logseq_page slices them
BodyLines(content) ==
    LET lines == str_lines(content)
    IN IF lines # <<>> /\ lines[1] = Delimiter
       THEN LET closing == CHOOSE d \in 2..Len(lines) :
                               /\ lines[d] = Delimiter
                               /\ \A e \in 2..(d - 1) : lines[e] # Delimiter
            IN SubSeq(lines, closing + 1, Len(lines))
       ELSE lines

\* the lines that are not blank, in order
NonBlank(lines) == SelectSeq(lines, LAMBDA l : trim(l) # <<>>)

\* the indentation the crate measures a line by
IndentOf(crate, line) ==
    IF crate = "publish-spa" THEN count_indent(line) ELSE lpr_indent(line)

\* the number of lines that follow line k of nb without a break and are deeper than it
RECURSIVE DeeperRun(_, _, _, _)
DeeperRun(crate, nb, k, j) ==
    IF j > Len(nb) \/ IndentOf(crate, nb[j]) <= IndentOf(crate, nb[k]) THEN 0
    ELSE 1 + DeeperRun(crate, nb, k, j + 1)

C21_BlockIdsUnique ==
    (parsed # <<>> /\ parsed[1].result.ok) =>
        LET bs == Preorder(parsed[1].result.value.blocks)
        IN \A i, j \in DOMAIN bs : bs[i].id = bs[j].id => i = j

\* C23: every top-level Block of a parsed Page has level 0, and every block's
\* level equals the indentation level of its line (leading tabs plus leading
\* two-space groups), also when the first non-blank line of the content is indented.
C23_LevelIsIndentation ==
    (parsed # <<>> /\ parsed[1].result.ok) =>
        LET nb     == NonBlank(BodyLines(in_content))
            blocks == parsed[1].result.value.blocks
            bs     == Preorder(blocks)
        IN /\ \A i \in DOMAIN blocks : blocks[i].level = 0
           /\ Len(bs) = Len(nb)
           /\ \A k \in DOMAIN bs : bs[k].level = count_indent(nb[k])

\* the blocks of a content without nesting: one bullet
FlatBlocks == parse_blocks(str_lines(deeply_nested(0, 1)), 0).value

\* C24: block-tree construction uses an explicit work list: the call-stack depth
\* of the parser is bounded by a constant that does not depend on the nesting
\* depth of the input, so parsing a nested content stacks no more activations of
\* parse_blocks and of extract_tags_and_links than parsing a flat one.
C24_StackIndependentOfNesting ==
    (parsed # <<>> /\ parsed[1].result.ok) =>
        LET blocks == parsed[1].result.value.blocks
        IN /\ parse_blocks_frames(blocks) <= parse_blocks_frames(FlatBlocks)
           /\ extract_frames(blocks) <= extract_frames(FlatBlocks)

\* the captures of every block of the sequence, block after block
RECURSIVE TagsOf(_)
TagsOf(bs) == IF bs = <<>> THEN <<>> ELSE tag_captures(Head(bs).content, 1) \o TagsOf(Tail(bs))

RECURSIVE LinksOf(_)
LinksOf(bs) == IF bs = <<>> THEN <<>> ELSE link_captures(Head(bs).content, 1) \o LinksOf(Tail(bs))

\* the elements of xs without the ones an earlier element equals
RECURSIVE FirstOccurrences(_)
FirstOccurrences(xs) ==
    IF xs = <<>> THEN <<>>
    ELSE LET init == SubSeq(xs, 1, Len(xs) - 1)
         IN IF xs[Len(xs)] \in Range(init) THEN FirstOccurrences(init)
            ELSE Append(FirstOccurrences(init), xs[Len(xs)])

\* C25: the tags list and the links list of a parsed Page hold no duplicate, hold
\* every tag and every wiki-link target of every block at any depth, and are
\* ordered by first occurrence in the pre-order walk of the block tree.
C25_TagsAndLinksInDocumentOrder ==
    (parsed # <<>> /\ parsed[1].result.ok) =>
        LET page == parsed[1].result.value
            bs   == Preorder(page.blocks)
        IN /\ NoDuplicates(page.tags) /\ NoDuplicates(page.links)
           /\ Range(page.tags) = Range(TagsOf(bs))
           /\ Range(page.links) = Range(LinksOf(bs))
           /\ page.tags = FirstOccurrences(TagsOf(bs))
           /\ page.links = FirstOccurrences(LinksOf(bs))

\* a page has been parsed whose last block repeats, in the opposite order, the
\* tags of its first block and of that block's child, and a link of the child
C25_Witness ==
    /\ parsed # <<>>
    /\ in_content = indented_first
    /\ parsed[1].result.ok
    /\ parsed[1].result.value.tags = << <<"t">>, <<"a">> >>
    /\ parsed[1].result.value.links = << <<"b">>, <<"c">> >>
    /\ Len(TagsOf(Preorder(parsed[1].result.value.blocks))) = 4

\* the lines of s when each of \n, \r\n and a lone \r ends a line; cur is the
\* line being read
RECURSIVE AnyEndingLines(_, _)
AnyEndingLines(s, cur) ==
    IF s = <<>> THEN (IF cur = <<>> THEN <<>> ELSE <<cur>>)
    ELSE IF Head(s) = "\n" THEN <<cur>> \o AnyEndingLines(Tail(s), <<>>)
    ELSE IF Head(s) = "\r"
         THEN IF Len(s) >= 2 /\ s[2] = "\n"
              THEN <<cur>> \o AnyEndingLines(Tail(Tail(s)), <<>>)
              ELSE <<cur>> \o AnyEndingLines(Tail(s), <<>>)
    ELSE AnyEndingLines(Tail(s), Append(cur, Head(s)))

\* C26: each of the line endings \n, \r\n and a lone \r terminates a line for
\* the parser: a content of unindented bullet lines separated by these endings,
\* such as four bullets separated by one \n, one \r\n and one lone \r, parses
\* to as many top-level blocks as it has lines.
C26_AnyLineEndingTerminates ==
    (/\ parsed # <<>>
     /\ parsed[1].result.ok
     /\ \A l \in Range(AnyEndingLines(in_content, <<>>)) : starts_with(l, <<"-", " ">>)) =>
        Len(parsed[1].result.value.blocks) = Len(AnyEndingLines(in_content, <<>>))

\* the content the crate gives the block of a line
ContentOf(crate, line) ==
    IF crate = "publish-spa" THEN extract_block_content(line) ELSE lpr_block_content(line)

\* every iteration of the loop of parse_blocks moves on: the look-ahead from a
\* line ends behind it, and the child lines it hands to the recursive call are
\* fewer than the lines of the call
LoopAdvances(lines) ==
    \A i \in DOMAIN lines :
        /\ LET scan == child_scan(lines, count_indent(lines[i]), i + 1, <<>>)
           IN scan.j > i /\ scan.j <= Len(lines) + 1 /\ Len(scan.child_lines) < Len(lines)
        /\ LET scan == lpr_child_scan(lines, lpr_indent(lines[i]), i + 1, <<>>)
           IN scan.j > i /\ scan.j <= Len(lines) + 1 /\ Len(scan.child_lines) < Len(lines)

C7_BatchSkipsFailures ==
    (builder # "none" /\ outcome # "running") =>
        \A p \in DOMAIN files : (p \in DOMAIN graph.pages) <=> ~Unclosed(files[p])

\* the link text names the page: by its path, by its title, or by the heading
\* its content starts with
LinkNames(link, page) ==
    \/ link = page.path
    \/ link = page.title
    \/ page.blocks # <<>> /\ page.blocks[1].content = <<"#", " ">> \o link

\* the pages of the graph holding a wiki-link that names the page of path q
LinkingPages(q) ==
    {p \in DOMAIN graph.pages :
        \E i \in DOMAIN graph.pages[p].links :
            LinkNames(graph.pages[p].links[i], graph.pages[q])}

\* C11: in a graph built from files, a page whose content holds a wiki-link to
\* another page of the graph is listed by get_backlinks of that page's path, and
\* n files linking to a page give it exactly n backlinks.
C11_LinkedPagesAreBacklinked ==
    (builder # "none" /\ outcome = "ok") =>
        \A q \in DOMAIN graph.pages :
            /\ LinkingPages(q) \subseteq Range(get_backlinks(graph, q))
            /\ Len(get_backlinks(graph, q)) = Cardinality(LinkingPages(q))

\* C12: building a graph from the same {path: content} mapping gives the same
\* result in whatever order the builder visits the files: the same pages, the
\* same stats, and for every target the same ordered get_backlinks sequence.
C12_VisitOrderIrrelevant ==
    (builder = "publish" /\ outcome = "ok") =>
        \A order \in VisitOrders(DOMAIN files) :
            LET g == build_graph(files, order, NewGraph)
            IN /\ g.pages = graph.pages
               /\ stats(g) = stats(graph)
               /\ \A t \in DOMAIN g.backlinks \cup DOMAIN graph.backlinks :
                      get_backlinks(g, t) = get_backlinks(graph, t)

\* C28: if parse_files of LogseqPublisher returns an error, the graph of the
\* publisher is exactly as it was before the call: no page of the failing batch
\* has been added and no backlink entry recorded.  The publisher of SpecBuild is
\* new when parse_files is called, so its graph before the call is the empty one.
C28_FailedBatchLeavesGraph ==
    (builder = "parse_files" /\ outcome = "error") => graph = NewGraph

====
